---- MODULE Spec2Model ----
(***************************************************************************)
(* A model of gestalt's PostgreSQL backend: the relationship segment       *)
(* resolver and schema compiler (generateDatabaseInterface), the path      *)
(* compiler, SQL renderer and pagination rewrite, and the per-request      *)
(* DataLoader based resolution engine (generateRelationshipResolver).      *)
(*                                                                         *)
(* Identifiers (type names, labels, field names) are sequences of lower    *)
(* case words: <<"has", "tag">> is the identifier written hasTag, HasTag   *)
(* or has_tag.  snake() of a template string is the concatenation of the   *)
(* word sequences of its parts, so two templates that produce the same     *)
(* snake_case text produce the same sequence.                              *)
(***************************************************************************)
EXTENDS Integers, Sequences, FiniteSets, TLC

\* ------------------------------------------------------------------------
\* JavaScript values

\* null / undefined: an absent segment of a pair, a missing argument, the
\* value of a missing property
Null == [null |-> TRUE]

IsNull(v) == v = Null

Last(s) == s[Len(s)]

\* Array.prototype.join on an array of strings
RECURSIVE JoinStrings(_, _)
JoinStrings(parts, sep) ==
  IF Len(parts) = 0 THEN ""
  ELSE IF Len(parts) = 1 THEN parts[1]
  ELSE parts[1] \o sep \o JoinStrings(Tail(parts), sep)

\* the snake_case text of an identifier
SnakeText(words) == JoinStrings(words, "_")

\* pluralize's plural() on a regular noun: the last word gets its plural
plural(words) == [words EXCEPT ![Len(words)] = @ \o "s"]

\* ------------------------------------------------------------------------
\* generateDatabaseInterface.js: names

tableNameFromTypeName(typeName) == plural(typeName)

pairingSignatureFromRelationshipSegment(segment) ==
  IF segment.direction = "in"
  THEN <<segment.toType, segment.label, segment.fromType>>
  ELSE <<segment.fromType, segment.label, segment.toType>>

identitySignatureFromRelationshipSegment(segment) ==
  <<segment.fromType, segment.toType, segment.label, segment.direction>>

\* ------------------------------------------------------------------------
\* generateDatabaseInterface.js: the segment resolver

\* the index of the entry of `entries` whose key is `key`, 0 when there is none
IndexOfKey(entries, key) ==
  IF \E i \in 1..Len(entries) : entries[i].key = key
  THEN CHOOSE i \in 1..Len(entries) : entries[i].key = key
  ELSE 0

\* relationships.forEach(r => r.path.forEach(...)): the segments in visit order
RECURSIVE FlattenPaths(_)
FlattenPaths(relationships) ==
  IF Len(relationships) = 0 THEN <<>>
  ELSE relationships[1].path \o FlattenPaths(Tail(relationships))

\* a Map in which the segment seen last always replaces the one kept
ReplacesExistingAlways(existingSegment) == TRUE

\* !existingSegment.nonNull: the segment kept for a signature gives way to
\* the next one
ReplacesExisting(existingSegment) == ~existingSegment.nonNull

\* the Map after visiting `segments`, as its entries in insertion order
RECURSIVE UniqueSegmentEntries(_, _)
UniqueSegmentEntries(segments, segmentMap) ==
  IF Len(segments) = 0 THEN segmentMap
  ELSE
    LET segment == segments[1]
        signature == identitySignatureFromRelationshipSegment(segment)
        i == IndexOfKey(segmentMap, signature)
        next ==
          IF i = 0
          THEN Append(segmentMap, [key |-> signature, value |-> segment])
          ELSE IF ReplacesExisting(segmentMap[i].value)
          THEN [segmentMap EXCEPT ![i].value = segment]
          ELSE segmentMap
    IN UniqueSegmentEntries(Tail(segments), next)

flattenedUniqueSegmentsFromRelationships(relationships) ==
  LET entries == UniqueSegmentEntries(FlattenPaths(relationships), <<>>)
  IN [i \in 1..Len(entries) |-> entries[i].value]

\* a segmentPairRequiresJoinTable that takes an absent segment for a singular
\* one
segmentPairRequiresJoinTableBothPlural(pair) ==
  /\ (~IsNull(pair.in) /\ pair.in.cardinality = "plural")
  /\ (~IsNull(pair.out) /\ pair.out.cardinality = "plural")

segmentPairRequiresJoinTable(pair) ==
  /\ (IsNull(pair.in) \/ pair.in.cardinality = "plural")
  /\ (IsNull(pair.out) \/ pair.out.cardinality = "plural")

joinTableDescriptionFromRelationshipSegmentPair(pair) ==
  LET left == IF ~IsNull(pair.out) THEN pair.out.fromType ELSE pair.in.toType
      right == IF ~IsNull(pair.out) THEN pair.out.toType ELSE pair.in.fromType
      label == IF ~IsNull(pair.out) THEN pair.out.label ELSE pair.in.label
  IN [name |-> tableNameFromTypeName(left \o label \o right),
      leftTableName |-> tableNameFromTypeName(left),
      rightTableName |-> tableNameFromTypeName(right),
      leftColumnName |-> left \o <<"id">>,
      rightColumnName |-> label \o right \o <<"id">>]

\* a normalization of the `out` segment that forgets to swap its types
NormalizedOutTypesKept(out) == [out EXCEPT !.direction = "in"]

\* the `out` segment rewritten in inbound form, when no `in` segment exists
NormalizedOut(out) ==
  [out EXCEPT !.direction = "in", !.fromType = out.toType,
              !.toType = out.fromType]

\* a choice of the segment that prefers `in` where the code prefers `out`
NormalTypePreferringIn(pair) ==
  IF IsNull(pair.in)
  THEN NormalizedOut(pair.out)
  ELSE IF \/ IsNull(pair.out)
          \/ ~(\/ pair.in.cardinality = "plural"
               \/ (pair.out.nonNull /\ ~pair.in.nonNull))
       THEN pair.in
       ELSE pair.out

\* the segment the foreign key is read from
NormalType(pair) ==
  IF IsNull(pair.in)
  THEN NormalizedOut(pair.out)
  ELSE IF \/ IsNull(pair.out)
          \/ pair.in.cardinality = "plural"
          \/ (pair.out.nonNull /\ ~pair.in.nonNull)
       THEN pair.in
       ELSE pair.out

foreignKeyDescriptionFromRelationshipSegmentPair(pair) ==
  LET normalType == NormalType(pair)
  IN [direction |-> normalType.direction,
      nonNull |-> \/ (~IsNull(pair.out) /\ pair.out.nonNull)
                  \/ (~IsNull(pair.in) /\ pair.in.nonNull),
      table |-> tableNameFromTypeName(normalType.toType),
      referencedTable |-> tableNameFromTypeName(normalType.fromType),
      column |->
        IF normalType.direction = "in"
        THEN normalType.label \o normalType.fromType \o <<"id">>
        ELSE normalType.label \o <<"by">> \o normalType.fromType \o <<"id">>]

joinTableFromDescription(description) ==
  LET Column(name, table) ==
        [name |-> name, type |-> "uuid", nonNull |-> TRUE,
         primaryKey |-> FALSE, unique |-> FALSE, defaultValue |-> Null,
         references |-> [table |-> table, column |-> <<"id">>]]
  IN [name |-> description.name,
      columns |-> << Column(description.leftColumnName,
                            description.leftTableName),
                     Column(description.rightColumnName,
                            description.rightTableName) >>,
      constraints |-> << [type |-> "UNIQUE",
                          columns |-> <<description.leftColumnName,
                                        description.rightColumnName>>] >>]

columnFromForeignKeyDescription(description) ==
  [name |-> description.column,
   type |-> "uuid",
   primaryKey |-> FALSE,
   nonNull |-> description.nonNull,
   unique |-> FALSE,
   defaultValue |-> Null,
   references |-> [table |-> description.referencedTable, column |-> <<"id">>]]

\* segmentMap of segmentDescriptionsFromRelationships: signature -> segments,
\* as entries in insertion order
RECURSIVE PairingEntries(_, _)
PairingEntries(segments, segmentMap) ==
  IF Len(segments) = 0 THEN segmentMap
  ELSE
    LET segment == segments[1]
        signature == pairingSignatureFromRelationshipSegment(segment)
        i == IndexOfKey(segmentMap, signature)
        next ==
          IF i = 0
          THEN Append(segmentMap, [key |-> signature, value |-> <<segment>>])
          ELSE [segmentMap EXCEPT ![i].value = Append(@, segment)]
    IN PairingEntries(Tail(segments), next)

\* matchingSegments.forEach(segment => pair[segment.direction] = segment)
RECURSIVE PairFromSegments(_, _)
PairFromSegments(matchingSegments, pair) ==
  IF Len(matchingSegments) = 0 THEN pair
  ELSE
    LET segment == matchingSegments[1]
    IN PairFromSegments(Tail(matchingSegments),
         IF segment.direction = "in"
         THEN [pair EXCEPT !.in = segment]
         ELSE [pair EXCEPT !.out = segment])

DescriptionFromEntry(entry) ==
  LET pair == PairFromSegments(entry.value, [in |-> Null, out |-> Null])
  IN IF segmentPairRequiresJoinTable(pair)
     THEN [type |-> "join", signature |-> entry.key, pair |-> pair,
           storage |-> joinTableDescriptionFromRelationshipSegmentPair(pair)]
     ELSE [type |-> "foreignKey", signature |-> entry.key, pair |-> pair,
           storage |-> foreignKeyDescriptionFromRelationshipSegmentPair(pair)]

segmentDescriptionsFromRelationships(relationships) ==
  LET segments == flattenedUniqueSegmentsFromRelationships(relationships)
      segmentMap == PairingEntries(segments, <<>>)
  IN [i \in 1..Len(segmentMap) |-> DescriptionFromEntry(segmentMap[i])]

\* keyMap(segmentDescriptions, segment => segment.signature)[signature]
descriptionFromSignature(segmentDescriptions, signature) ==
  LET hits == {i \in 1..Len(segmentDescriptions) :
                 segmentDescriptions[i].signature = signature}
  IN IF hits = {} THEN Null
     ELSE segmentDescriptions[CHOOSE i \in hits : \A j \in hits : j <= i]

descriptionFromSegment(segmentDescriptionMap, segment) ==
  descriptionFromSignature(segmentDescriptionMap,
                           pairingSignatureFromRelationshipSegment(segment))

\* ------------------------------------------------------------------------
\* generateRelationshipResolver.js: the path compiler

Id == <<"id">>

Endpoint(table, column) == [table |-> table, column |-> column]

Join(table, left, right) ==
  [table |-> table, condition |-> [left |-> left, right |-> right]]

\* the first letter of a word in upper case, for the words of the schemas
\* explored
Capitalize(word) ==
  CASE word = "id" -> "Id"
    [] word = "by" -> "By"
    [] word = "author" -> "Author"
    [] word = "post" -> "Post"
    [] word = "tag" -> "Tag"
    [] word = "wrote" -> "Wrote"
    [] OTHER -> word

RECURSIVE CapitalizeAll(_)
CapitalizeAll(words) ==
  IF Len(words) = 0 THEN ""
  ELSE Capitalize(words[1]) \o CapitalizeAll(Tail(words))

\* change-case's camel() of a snake_case name: its camelCase text
camel(words) == words[1] \o CapitalizeAll(Tail(words))

objectKeyColumnFromRelationship(segmentDescriptionMap, relationship) ==
  LET segment == relationship.path[1]
      description == descriptionFromSegment(segmentDescriptionMap, segment)
  IN IF /\ description.type = "foreignKey"
        /\ description.storage.direction # segment.direction
     THEN camel(description.storage.column)
     ELSE "id"

resolvedKeyColumnFromRelationship(segmentDescriptionMap, relationship) ==
  LET segment == relationship.path[1]
      description == descriptionFromSegment(segmentDescriptionMap, segment)
  IN IF /\ description.type = "foreignKey"
        /\ description.storage.direction = segment.direction
     THEN camel(description.storage.column)
     ELSE "id"

conditionFromSegment(segmentDescriptionMap, segment) ==
  LET description == descriptionFromSegment(segmentDescriptionMap, segment)
      storage == description.storage
      Condition(table, column) ==
        [table |-> table, column |-> column, operator |-> "=",
         value |-> "ANY ($1)"]
  IN IF description.type = "foreignKey"
     THEN IF segment.direction = storage.direction
          THEN Condition(storage.table, storage.column)
          ELSE Condition(storage.referencedTable, Id)
     ELSE IF segment.direction = "in"
          THEN Condition(storage.name, storage.rightColumnName)
          ELSE Condition(storage.name, storage.leftColumnName)

\* the joins one pass of the loop of joinsFromSegments pushes for `segment`
JoinsFromSegment(segmentDescriptionMap, segment) ==
  LET description == descriptionFromSegment(segmentDescriptionMap, segment)
      storage == description.storage
      toTableName == tableNameFromTypeName(segment.toType)
  IN IF description.type = "foreignKey"
     THEN IF segment.direction = storage.direction
          THEN << Join(storage.referencedTable,
                       Endpoint(storage.referencedTable, Id),
                       Endpoint(storage.table, storage.column)) >>
          ELSE << Join(storage.table,
                       Endpoint(storage.table, storage.column),
                       Endpoint(storage.referencedTable, Id)) >>
     ELSE IF toTableName = storage.leftTableName
          THEN << Join(storage.name,
                       Endpoint(storage.name, storage.leftColumnName),
                       Endpoint(storage.leftTableName, Id)),
                  Join(storage.rightTableName,
                       Endpoint(storage.rightTableName, Id),
                       Endpoint(storage.name, storage.rightColumnName)) >>
          ELSE << Join(storage.name,
                       Endpoint(storage.name, storage.rightColumnName),
                       Endpoint(toTableName, Id)),
                  Join(storage.leftTableName,
                       Endpoint(storage.leftTableName, Id),
                       Endpoint(storage.name, storage.leftColumnName)) >>

\* for (let i = segments.length - 1; i >= 0; i--): last segment first
RECURSIVE joinsFromSegments(_, _)
joinsFromSegments(segmentDescriptionMap, segments) ==
  IF Len(segments) = 0 THEN <<>>
  ELSE JoinsFromSegment(segmentDescriptionMap, Last(segments))
       \o joinsFromSegments(segmentDescriptionMap,
                            SubSeq(segments, 1, Len(segments) - 1))

joinsFromInitialSegment(segmentDescriptionMap, segment) ==
  LET description == descriptionFromSegment(segmentDescriptionMap, segment)
      storage == description.storage
  IN IF description.type = "join"
     THEN IF segment.direction = "in"
          THEN << Join(storage.name,
                       Endpoint(storage.name, storage.leftColumnName),
                       Endpoint(storage.leftTableName, Id)) >>
          ELSE << Join(storage.name,
                       Endpoint(storage.name, storage.rightColumnName),
                       Endpoint(storage.rightTableName, Id)) >>
     ELSE <<>>

joinsFromPath(segmentDescriptionMap, segments) ==
  joinsFromSegments(segmentDescriptionMap, Tail(segments))
  \o joinsFromInitialSegment(segmentDescriptionMap, segments[1])

\* the loop of compactJoins from index i on
RECURSIVE CompactFrom(_, _)
CompactFrom(joins_, i) ==
  IF i > Len(joins_) THEN <<>>
  ELSE IF /\ i + 1 <= Len(joins_)
          /\ joins_[i].condition.left.table = joins_[i + 1].condition.right.table
          /\ joins_[i].condition.left.column
               = joins_[i + 1].condition.right.column
       THEN << Join(joins_[i + 1].table, joins_[i + 1].condition.left,
                    joins_[i].condition.right) >>
            \o CompactFrom(joins_, i + 2)
       ELSE << joins_[i] >> \o CompactFrom(joins_, i + 1)

\* the compaction that keeps every join
compactJoinsKeepingAll(joins_) == joins_

compactJoins(joins_) == CompactFrom(joins_, 1)

queryFromRelationship(segmentDescriptionMap, relationship) ==
  LET initialSegment == relationship.path[1]
      finalSegment == Last(relationship.path)
  IN [table |-> tableNameFromTypeName(finalSegment.toType),
      joins |-> compactJoins(
                  joinsFromPath(segmentDescriptionMap, relationship.path)),
      conditions |-> << conditionFromSegment(segmentDescriptionMap,
                                             initialSegment) >>,
      limit |-> Null,
      order |-> Null,
      batched |-> TRUE]

\* ------------------------------------------------------------------------
\* generateRelationshipResolver.js: the SQL renderer

\* `${table}.${column}`
Qualified(table, column) == SnakeText(table) \o "." \o SnakeText(column)

RenderJoin(join) ==
  << "JOIN", SnakeText(join.table), "ON",
     Qualified(join.condition.left.table, join.condition.left.column), "=",
     Qualified(join.condition.right.table, join.condition.right.column) >>

RECURSIVE RenderJoins(_)
RenderJoins(joins) ==
  IF Len(joins) = 0 THEN <<>>
  ELSE RenderJoin(joins[1]) \o RenderJoins(Tail(joins))

RenderCondition(condition) ==
  << Qualified(condition.table, condition.column), condition.operator,
     condition.value >>

\* conditions.map(...).join(' AND ')
RECURSIVE RenderConditions(_)
RenderConditions(conditions) ==
  IF Len(conditions) = 0 THEN <<>>
  ELSE IF Len(conditions) = 1 THEN RenderCondition(conditions[1])
  ELSE RenderCondition(conditions[1]) \o <<"AND">>
       \o RenderConditions(Tail(conditions))

\* the pieces of the statement text, which the template separates by one space
SqlPieces(query) ==
  << "SELECT", SnakeText(query.table) \o ".*", "FROM", SnakeText(query.table) >>
  \o RenderJoins(query.joins)
  \o << "WHERE" >> \o RenderConditions(query.conditions)
  \o (IF ~IsNull(query.order)
      THEN << "ORDER", "BY", Qualified(query.table, query.order.column),
              query.order.direction >>
      ELSE <<>>)
  \o (IF ~IsNull(query.limit)
      THEN << "LIMIT", ToString(query.limit.value) >>
      ELSE <<>>)

sqlStringFromQuery(query) == JoinStrings(SqlPieces(query), " ") \o ";"

\* ------------------------------------------------------------------------
\* generateRelationshipResolver.js: connection arguments

\* a number or a string given as a connection argument; an argument that is
\* not given is Null
Js(v) == [value |-> v]

NoArgs ==
  [first |-> Null, last |-> Null, before |-> Null, after |-> Null,
   order |-> Null]

PaginationError ==
  [error |-> "forward and reverse pagination arguments should not be combined"]

\* a check that looks at the limits only and forgets the cursors
PaginationArgsAllowedLimitsOnly(args) ==
  IsNull(args.first) \/ IsNull(args.last)

\* the condition of the invariant() of applyConnectionArgs
PaginationArgsAllowed(args) ==
  \/ (IsNull(args.first) /\ IsNull(args.after))
  \/ (IsNull(args.last) /\ IsNull(args.before))

\* the query with the connection arguments applied, or the error thrown
\* a direction that looks at `last` only
OrderDirectionFromLast(args) ==
  IF ~IsNull(args.last) THEN "DESC" ELSE "ASC"

\* (last != null || before != null) ? 'DESC' : 'ASC'
OrderDirection(args) ==
  IF ~IsNull(args.last) \/ ~IsNull(args.before) THEN "DESC" ELSE "ASC"

applyConnectionArgs(query, args) ==
  LET table == query.table
      column == IF IsNull(args.order) THEN <<"seq">> ELSE args.order.value
      value == "(SELECT " \o SnakeText(column) \o " FROM " \o SnakeText(table)
               \o " WHERE id = $2)"
      limit == IF ~IsNull(args.first) THEN args.first ELSE args.last
      order == [column |-> column, direction |-> OrderDirection(args)]
      Bound(operator) == [table |-> table, column |-> column,
                          operator |-> operator, value |-> value]
      conditions ==
        IF ~IsNull(args.after) THEN Append(query.conditions, Bound(">"))
        ELSE IF ~IsNull(args.before) THEN Append(query.conditions, Bound("<"))
        ELSE query.conditions
  IN IF ~PaginationArgsAllowed(args) THEN PaginationError
     ELSE [table |-> table, joins |-> query.joins, conditions |-> conditions,
           limit |-> limit, order |-> order]

\* const params = [[key]]; if (args.before || args.after) params.push(...):
\* the cursors of the requests explored are non-empty strings, so a cursor
\* that is given is truthy
ConnectionParams(key, args) ==
  << <<key>> >>
  \o (IF ~IsNull(args.before) THEN <<args.before.value>>
      ELSE IF ~IsNull(args.after) THEN <<args.after.value>>
      ELSE <<>>)

\* the property `column` of a row, undefined when the row has none
RowValue(row, column) == IF column \in DOMAIN row THEN row[column] ELSE Null

\* what the plural loader makes of the rows of one statement
ConnectionFromNodes(nodes) ==
  [edges |-> [i \in 1..Len(nodes) |->
                [node |-> nodes[i], cursor |-> RowValue(nodes[i], "id")]],
   pageInfo |-> [hasPreviousPage |-> FALSE, hasNextPage |-> FALSE],
   count |-> Len(nodes),
   totalCount |-> Len(nodes)]

\* keyMap(results, result => result[keyColumn])[key]: the row kept for `key`,
\* undefined when no row has that key
ResultByKey(results, keyColumn, key) ==
  LET hits == {i \in 1..Len(results) :
                 /\ keyColumn \in DOMAIN results[i]
                 /\ results[i][keyColumn] = key}
  IN IF hits = {} THEN Null
     ELSE results[CHOOSE i \in hits : \A j \in hits : j <= i]

\* values that pair the rows with the keys by position
SingularValuesByPosition(keys, results, keyColumn) ==
  [i \in 1..Len(keys) |-> IF i <= Len(results) THEN results[i] ELSE Null]

\* keys.map(key => resultsByKey[key])
SingularValues(keys, results, keyColumn) ==
  [i \in 1..Len(keys) |-> ResultByKey(results, keyColumn, keys[i])]

\* ------------------------------------------------------------------------
\* generateDatabaseInterface.js: tables of object type definitions

\* a JavaScript string and a Name node of the GraphQL AST
JsString(words) == [typeof |-> "string", value |-> words]

NameNode(words) == [typeof |-> "object", kind |-> "Name", value |-> words]

\* a === b: strings are identical when their text is, an object is identical
\* to itself only, and the operands here are never the same object
StrictEquals(a, b) ==
  a.typeof = "string" /\ b.typeof = "string" /\ a.value = b.value

isDatabaseField(definition) ==
  ~\E i \in 1..Len(definition.directives) :
     definition.directives[i] \in {"virtual", "relationship"}

\* TRUE when the invariant() of validateDatabaseField passes
validateDatabaseField(definition) ==
  ~StrictEquals(definition.name, JsString(<<"seq">>))

isNonNullType(type) == type.kind = "NonNullType"

columnTypeFromGraphQLType(type) ==
  CASE type.name = "ID" -> "uuid"
    [] type.name = "String" -> "text"
    [] type.name = "Int" -> "integer"
    [] type.name = "Float" -> "double precision"
    [] type.name = "Date" -> "timestamp without time zone"
    [] type.name = "Money" -> "money"
    [] type.name = "SERIAL" -> "SERIAL"
    [] OTHER -> "jsonb"

columnFromFieldDefintion(definition) ==
  LET isId == definition.name.value = <<"id">>
  IN [name |-> definition.name.value,
      type |-> columnTypeFromGraphQLType(definition.type),
      primaryKey |-> isId,
      nonNull |-> isNonNullType(definition.type),
      unique |-> \E i \in 1..Len(definition.directives) :
                   definition.directives[i] = "unique",
      defaultValue |-> IF isId THEN [expression |-> "gen_random_uuid()"]
                       ELSE Null,
      references |-> Null]

SeqColumn ==
  [name |-> <<"seq">>, type |-> "SERIAL", primaryKey |-> FALSE,
   nonNull |-> TRUE, unique |-> TRUE, defaultValue |-> Null,
   references |-> Null]

ReservedSeqError ==
  [error |-> "The seq field is reserved by Gestalt and cannot be defined"]

IsError(v) == "error" \in DOMAIN v

\* definition.fields.forEach(...): the columns after the fields from i on, or
\* the error the invariant throws
RECURSIVE ColumnsFromFields(_, _, _)
ColumnsFromFields(fields, i, columns) ==
  IF i > Len(fields) THEN [columns |-> columns]
  ELSE IF isDatabaseField(fields[i])
       THEN IF validateDatabaseField(fields[i])
            THEN ColumnsFromFields(fields, i + 1,
                   Append(columns, columnFromFieldDefintion(fields[i])))
            ELSE ReservedSeqError
       ELSE ColumnsFromFields(fields, i + 1, columns)

tableFromObjectTypeDefinition(definition) ==
  LET result == ColumnsFromFields(definition.fields, 1, <<SeqColumn>>)
  IN IF IsError(result) THEN result
     ELSE [name |-> tableNameFromTypeName(definition.name.value),
           columns |-> result.columns,
           constraints |-> <<>>]

\* ------------------------------------------------------------------------
\* State

VARIABLES
  relationships,        \* schemaInfo.relationships
  segmentDescriptions,  \* the result of segmentDescriptionsFromRelationships
  generated,            \* generateDatabaseInterface has returned
  loaders,              \* per relationship, what its loader is built from
  tables,               \* schema.tables of the database interface
  joins,                \* a join list handed to compactJoins
  compactions,          \* the results of compacting it, and of compacting those
  definition,           \* an object type definition
  table,                \* the result of tableFromObjectTypeDefinition for it
  item,                 \* one load key of the plural loader and how far its
                        \* callback has come
  calls,                \* the resolver calls of the request, in order
  promises,             \* the promises the loaders have created
  cache,                \* per loader: its DataLoader's promise cache
  queue,                \* per loader: its DataLoader's queue
  batches,              \* the batches dispatched
  executions            \* the calls of the statement executor

schemaVars == <<relationships, segmentDescriptions, generated, loaders, tables>>

joinVars == <<joins, compactions>>

tableVars == <<definition, table>>

itemVars == <<item>>

requestVars == <<calls, promises, cache, queue, batches, executions>>

vars == <<schemaVars, joinVars, tableVars, itemVars, requestVars>>

SchemaInit ==
  /\ relationships = <<>>
  /\ segmentDescriptions = <<>>
  /\ generated = FALSE
  /\ loaders = <<>>
  /\ tables = <<>>

JoinInit ==
  /\ joins = <<>>
  /\ compactions = <<>>

TableInit ==
  /\ definition = [name |-> NameNode(<<"post">>), fields |-> <<>>]
  /\ table = Null

\* no load key is being worked on
ItemIdle ==
  item = [key |-> "", args |-> NoArgs, base |-> Null, pc |-> "idle",
          result |-> Null, sql |-> "", params |-> <<>>]

\* the loaders of a request that has resolved nothing yet
RequestInit ==
  /\ calls = <<>>
  /\ promises = <<>>
  /\ cache = [r \in {1, 2} |-> <<>>]
  /\ queue = [r \in {1, 2} |-> <<>>]
  /\ batches = <<>>
  /\ executions = <<>>

Init == SchemaInit /\ JoinInit /\ TableInit /\ ItemIdle /\ RequestInit

\* ------------------------------------------------------------------------
\* The schema under compilation

\* the entity types and relationship labels of the schemas explored
Types == {<<"author">>, <<"post">>}

PathTypes == {<<"author">>, <<"post">>, <<"tag">>}

Labels == {<<"wrote">>}

SegmentsOver(types, labels) ==
  [fromType : types, toType : types, label : labels,
   direction : {"in", "out"}, cardinality : {"singular", "plural"},
   nonNull : BOOLEAN]

\* bound on the number of segments of all declared paths (Spec)
MaxSegments == 2

\* bound on the number of hops of the one declared path (SpecPath)
MaxHops == 2

RECURSIVE TotalSegments(_)
TotalSegments(rels) ==
  IF Len(rels) = 0 THEN 0 ELSE Len(rels[1].path) + TotalSegments(Tail(rels))

\* the schema front end hands over one more relationship, of a one-hop path
DeclareRelationship(segment, maxRelationships, maxSegments) ==
  /\ ~generated
  /\ Len(relationships) < maxRelationships
  /\ TotalSegments(relationships) < maxSegments
  /\ relationships' = Append(relationships, [path |-> <<segment>>])
  /\ UNCHANGED <<segmentDescriptions, generated, loaders, tables>>
  /\ UNCHANGED <<joinVars, tableVars, itemVars, requestVars>>

\* the front end reads one more hop of the path of the last relationship
ExtendPath(segment, maxSegments) ==
  /\ ~generated
  /\ Len(relationships) > 0
  /\ TotalSegments(relationships) < maxSegments
  /\ LET r == Last(relationships)
     IN /\ Last(r.path).toType = segment.fromType
        /\ relationships' = [relationships EXCEPT ![Len(relationships)] =
                               [path |-> Append(r.path, segment)]]
  /\ UNCHANGED <<segmentDescriptions, generated, loaders, tables>>
  /\ UNCHANGED <<joinVars, tableVars, itemVars, requestVars>>

\* a field definition `id: ID!`
IdField ==
  [name |-> NameNode(<<"id">>), type |-> [kind |-> "NonNullType", name |-> "ID"],
   directives |-> <<>>]

\* schemaInfo.objectTypes: every type of the schema, each with its id field
ObjectTypes ==
  [i \in 1..3 |->
     [name |-> NameNode(<< <<"author">>, <<"post">>, <<"tag">> >>[i]),
      fields |-> <<IdField>>]]

\* tables with the column pushed to the columns of the table named `name`
PushColumn(tables_, name, column) ==
  [i \in 1..Len(tables_) |->
     IF tables_[i].name = name
     THEN [tables_[i] EXCEPT !.columns = Append(@, column)]
     ELSE tables_[i]]

\* segmentDescriptions.forEach(...) of generateDatabaseInterface, from
\* description i on: a join table is pushed, or a foreign key column is pushed
\* to the columns of the table of the description
RECURSIVE SchemaTables(_, _, _)
SchemaTables(tables_, descriptions, i) ==
  IF i > Len(descriptions) THEN tables_
  ELSE SchemaTables(
         IF descriptions[i].type = "join"
         THEN Append(tables_, joinTableFromDescription(descriptions[i].storage))
         ELSE PushColumn(tables_, descriptions[i].storage.table,
                columnFromForeignKeyDescription(descriptions[i].storage)),
         descriptions, i + 1)

generateDatabaseInterface ==
  /\ ~generated
  /\ Len(relationships) > 0
  /\ segmentDescriptions' = segmentDescriptionsFromRelationships(relationships)
  /\ tables' = SchemaTables(
                 [i \in 1..Len(ObjectTypes) |->
                    tableFromObjectTypeDefinition(ObjectTypes[i])],
                 segmentDescriptionsFromRelationships(relationships), 1)
  /\ generated' = TRUE
  /\ UNCHANGED <<relationships, loaders>>
  /\ UNCHANGED <<joinVars, tableVars, itemVars, requestVars>>

\* what generateRelationshipLoaders computes for one relationship
LoaderParts(segmentDescriptionMap, relationship) ==
  LET query == queryFromRelationship(segmentDescriptionMap, relationship)
  IN [keyColumn |-> resolvedKeyColumnFromRelationship(segmentDescriptionMap,
                                                      relationship),
      query |-> query,
      pieces |-> SqlPieces(query),
      sql |-> sqlStringFromQuery(query)]

\* prepareQueryContext: the loaders of one request
generateRelationshipLoaders ==
  /\ generated
  /\ loaders = <<>>
  /\ loaders' = [i \in 1..Len(relationships) |->
                   LoaderParts(segmentDescriptions, relationships[i])]
  /\ UNCHANGED <<relationships, segmentDescriptions, generated, tables>>
  /\ UNCHANGED <<joinVars, tableVars, itemVars, requestVars>>

Next ==
  \/ \E segment \in SegmentsOver(Types, Labels) :
       DeclareRelationship(segment, MaxSegments, MaxSegments)
  \/ \E segment \in SegmentsOver(Types, Labels) :
       ExtendPath(segment, MaxSegments)
  \/ generateDatabaseInterface

Spec == Init /\ [][Next]_vars

PathNext ==
  \/ \E segment \in SegmentsOver(PathTypes, Labels) :
       DeclareRelationship(segment, 1, MaxHops)
  \/ \E segment \in SegmentsOver(PathTypes, Labels) :
       ExtendPath(segment, MaxHops)
  \/ generateDatabaseInterface
  \/ generateRelationshipLoaders

SpecPath == Init /\ [][PathNext]_vars

\* a schema whose edges carry the labels WROTE and WROTE_BY
ClashLabels == {<<"wrote">>, <<"wrote", "by">>}

ClashSegments ==
  {segment \in SegmentsOver(Types, ClashLabels) :
     segment.fromType # segment.toType /\ ~segment.nonNull}

\* bound on the number of relationships of that schema
MaxClashSegments == 3

ClashNext ==
  \/ \E segment \in ClashSegments :
       DeclareRelationship(segment, MaxClashSegments, MaxClashSegments)
  \/ generateDatabaseInterface

SpecClash == Init /\ [][ClashNext]_vars

\* ------------------------------------------------------------------------
\* Join lists under compaction

\* the (table, column) pairs the joins of the lists explored connect
JoinEndpoints ==
  {Endpoint(t, c) : t \in {<<"posts">>, <<"author", "wrote", "posts">>},
                    c \in {Id, <<"author", "id">>}}

\* bound on the length of the join list
MaxJoins == 3

\* the path compiler adds a join: it joins the table of its left endpoint on
\* the equality of two different columns
PushJoin(left, right) ==
  /\ compactions = <<>>
  /\ left # right
  /\ Len(joins) < MaxJoins
  /\ joins' = Append(joins, Join(left.table, left, right))
  /\ UNCHANGED compactions
  /\ UNCHANGED <<schemaVars, tableVars, itemVars, requestVars>>

\* compactJoins is applied to the list, then to its own result
Compact ==
  /\ Len(joins) > 0
  /\ Len(compactions) < 2
  /\ compactions' = Append(compactions,
       compactJoins(IF compactions = <<>> THEN joins ELSE Last(compactions)))
  /\ UNCHANGED joins
  /\ UNCHANGED <<schemaVars, tableVars, itemVars, requestVars>>

JoinsNext ==
  \/ \E left \in JoinEndpoints, right \in JoinEndpoints : PushJoin(left, right)
  \/ Compact

SpecJoins == Init /\ [][JoinsNext]_vars

\* ------------------------------------------------------------------------
\* Object type definitions under compilation

FieldNames == {<<"id">>, <<"seq">>, <<"title">>}

FieldTypes ==
  [kind : {"NamedType", "NonNullType"}, name : {"ID", "String"}]

FieldDirectives == {<<>>, <<"virtual">>, <<"relationship">>, <<"unique">>}

\* bound on the number of fields of the definition
MaxFields == 2

\* the schema front end parses one more field of the definition
DeclareField(name, type, directives) ==
  /\ table = Null
  /\ Len(definition.fields) < MaxFields
  /\ definition' = [definition EXCEPT !.fields =
       Append(@, [name |-> NameNode(name), type |-> type,
                  directives |-> directives])]
  /\ UNCHANGED table
  /\ UNCHANGED <<schemaVars, joinVars, itemVars, requestVars>>

BuildTable ==
  /\ table = Null
  /\ table' = tableFromObjectTypeDefinition(definition)
  /\ UNCHANGED definition
  /\ UNCHANGED <<schemaVars, joinVars, itemVars, requestVars>>

TableNext ==
  \/ \E name \in FieldNames, type \in FieldTypes,
        directives \in FieldDirectives : DeclareField(name, type, directives)
  \/ BuildTable

SpecTable == Init /\ [][TableNext]_vars

\* ------------------------------------------------------------------------
\* The schema the requests below are resolved against: Post.author, a singular
\* relationship, and Author.posts, a plural one, over the same edge

AuthorOfPost ==
  [fromType |-> <<"post">>, toType |-> <<"author">>, label |-> <<"wrote">>,
   direction |-> "in", cardinality |-> "singular", nonNull |-> FALSE]

PostsOfAuthor ==
  [fromType |-> <<"author">>, toType |-> <<"post">>, label |-> <<"wrote">>,
   direction |-> "out", cardinality |-> "plural", nonNull |-> FALSE]

RequestRelationships ==
  << [fieldName |-> "author", cardinality |-> "singular",
      path |-> <<AuthorOfPost>>],
     [fieldName |-> "posts", cardinality |-> "plural",
      path |-> <<PostsOfAuthor>>] >>

RequestDescriptions == segmentDescriptionsFromRelationships(RequestRelationships)

\* the relationshipLoaderMap of the request: what each loader closes over
RequestLoaders ==
  [r \in 1..Len(RequestRelationships) |->
     LoaderParts(RequestDescriptions, RequestRelationships[r])]

IsSingular(r) == RequestRelationships[r].cardinality = "singular"

\* ------------------------------------------------------------------------
\* One load key of the plural loader: the callback of loadKeys.map

Limits == {Null, Js(0), Js(2)}

Cursors == {Null, Js("cursor")}

Orders == {Null, Js(<<"created", "at">>)}

ConnectionArguments ==
  [first : Limits, last : Limits, before : Cursors, after : Cursors,
   order : Orders]

Keys == {"A", "B"}

\* Author.tags: the tags of the posts of an author, a plural path of two hops
TagsOfPost ==
  [fromType |-> <<"post">>, toType |-> <<"tag">>, label |-> <<"tagged">>,
   direction |-> "out", cardinality |-> "plural", nonNull |-> FALSE]

TagsOfAuthor ==
  [fieldName |-> "tags", cardinality |-> "plural",
   path |-> <<PostsOfAuthor, TagsOfPost>>]

\* the base queries of the plural loaders of Author.posts and Author.tags
BaseQueries ==
  {RequestLoaders[2].query,
   queryFromRelationship(segmentDescriptionsFromRelationships(<<TagsOfAuthor>>),
                         TagsOfAuthor)}

\* the callback of a plural loader has been called with one load key
ItemCalled ==
  \E key \in Keys, args \in ConnectionArguments, base \in BaseQueries :
    item = [key |-> key, args |-> args, base |-> base, pc |-> "called",
            result |-> Null, sql |-> "", params |-> <<>>]

\* applyConnectionArgs(baseQuery, args): the callback goes on with the new
\* query, or is rejected with the error thrown
ApplyArgs ==
  /\ item.pc = "called"
  /\ LET result == applyConnectionArgs(item.base, item.args)
     IN item' = [item EXCEPT !.result = result,
                             !.pc = IF IsError(result) THEN "rejected"
                                    ELSE "applied"]
  /\ UNCHANGED <<schemaVars, joinVars, tableVars, requestVars>>

\* sqlStringFromQuery(...) and the parameters
RenderItem ==
  /\ item.pc = "applied"
  /\ item' = [item EXCEPT !.sql = sqlStringFromQuery(item.result),
                          !.params = ConnectionParams(item.key, item.args),
                          !.pc = "rendered"]
  /\ UNCHANGED <<schemaVars, joinVars, tableVars, requestVars>>

\* await query(sql, params): the statement executor is called
ExecuteItem ==
  /\ item.pc = "rendered"
  /\ item' = [item EXCEPT !.pc = "executing"]
  /\ UNCHANGED <<schemaVars, joinVars, tableVars, requestVars>>

ItemNext == ApplyArgs \/ RenderItem \/ ExecuteItem

ItemInit == SchemaInit /\ JoinInit /\ TableInit /\ ItemCalled /\ RequestInit

SpecItem == ItemInit /\ [][ItemNext]_vars

\* ------------------------------------------------------------------------
\* One request: the resolvers, the DataLoaders and the statement executor

\* the connection arguments of the resolver calls explored
RequestArguments ==
  {NoArgs, [NoArgs EXCEPT !.first = Js(2)],
   [NoArgs EXCEPT !.first = Js(2), !.last = Js(2)]}

\* the results the statement executor may return: any rows in any order, or
\* one row without the key column, as the query() of db.js returns
RowResults ==
  {<<>>, <<"id" :> "A">>, <<"id" :> "B">>, <<"id" :> "A", "id" :> "B">>,
   <<"id" :> "B", "id" :> "A">>, <<"name" :> "n">>}

ExecutorError == [error |-> "statement executor failed"]

\* bounds on the number of resolver calls of the request: of singular fields
\* and of plural fields
MaxCalls == 3

MaxConnectionCalls == 2

\* the scheduling ticks that have ended: each dispatch and each settling of a
\* statement runs in a tick of its own
Tick ==
  Len(batches)
    + Cardinality({e \in 1..Len(executions) : executions[e].state # "running"})

\* the batch promise p was dispatched in, 0 while it is queued
BatchOf(p) ==
  LET hits == {b \in 1..Len(batches) :
                 \E i \in 1..Len(batches[b].entries) :
                   batches[b].entries[i].promise = p}
  IN IF hits = {} THEN 0 ELSE CHOOSE b \in hits : TRUE

\* the resolver of relationship r is called for an object whose key is `key`:
\* loader.load(key) or loader.load({key, args}), a new object each time
Resolve(r, key, args, maxCalls) ==
  /\ Len(calls) < maxCalls
  /\ LET loadKey == IF IsSingular(r) THEN key
                    ELSE [ref |-> Len(calls) + 1, key |-> key, args |-> args]
         hit == IndexOfKey(cache[r], loadKey)
         p == Len(promises) + 1
         call == [relationship |-> r, key |-> key, args |-> args,
                  tick |-> Tick]
     IN IF hit # 0
        THEN /\ calls' = Append(calls,
                  call @@ [promise |-> cache[r][hit].value])
             /\ UNCHANGED <<promises, cache, queue>>
        ELSE /\ calls' = Append(calls, call @@ [promise |-> p])
             /\ promises' = Append(promises,
                  [state |-> "pending", value |-> Null, tick |-> Tick])
             /\ queue' = [queue EXCEPT ![r] =
                  Append(@, [key |-> loadKey, promise |-> p])]
             /\ cache' = [cache EXCEPT ![r] =
                  Append(@, [key |-> loadKey, value |-> p])]
  /\ UNCHANGED <<batches, executions>>
  /\ UNCHANGED <<schemaVars, joinVars, tableVars, itemVars>>

\* promises with those of `entries` settled: entry i gets values[i]
Settled(entries, state, values) ==
  [p \in 1..Len(promises) |->
     IF \E i \in 1..Len(entries) : entries[i].promise = p
     THEN LET i == CHOOSE i \in 1..Len(entries) : entries[i].promise = p
          IN [promises[p] EXCEPT !.state = state, !.value = values[i]]
     ELSE promises[p]]

\* a failure that rejects every pending load of the request
FailedDispatchOfAllPending(r, entries, error) ==
  /\ promises' = [p \in 1..Len(promises) |->
                    IF promises[p].state = "pending"
                    THEN [promises[p] EXCEPT !.state = "rejected",
                                             !.value = error]
                    ELSE promises[p]]
  /\ cache' = [cache EXCEPT ![r] =
       SelectSeq(@, LAMBDA c :
         ~\E i \in 1..Len(entries) : entries[i].key = c.key)]

\* failedDispatch: every key of the batch is cleared from the cache and
\* rejected with the error
FailedDispatch(r, entries, error) ==
  /\ promises' = Settled(entries, "rejected",
                         [i \in 1..Len(entries) |-> error])
  /\ cache' = [cache EXCEPT ![r] =
       SelectSeq(@, LAMBDA c :
         ~\E i \in 1..Len(entries) : entries[i].key = c.key)]

\* the batch function of the singular loader: one statement for all keys
DispatchSingular(r) ==
  LET entries == queue[r]
      keys == [i \in 1..Len(entries) |-> entries[i].key]
  IN /\ batches' = Append(batches,
          [relationship |-> r, entries |-> entries, state |-> "pending",
           items |-> <<>>])
     /\ executions' = Append(executions,
          [relationship |-> r, batch |-> Len(batches) + 1, item |-> 0,
           sql |-> RequestLoaders[r].sql, params |-> <<keys>>,
           state |-> "running", rows |-> <<>>])
     /\ UNCHANGED <<promises, cache>>

\* the statements the callbacks of loadKeys.map start, in order
RECURSIVE ItemExecutions(_, _, _, _)
ItemExecutions(r, batch, entries, i) ==
  IF i > Len(entries) THEN <<>>
  ELSE LET loadKey == entries[i].key
           query == applyConnectionArgs(RequestLoaders[r].query, loadKey.args)
       IN (IF IsError(query) THEN <<>>
           ELSE << [relationship |-> r, batch |-> batch, item |-> i,
                    sql |-> sqlStringFromQuery(query),
                    params |-> ConnectionParams(loadKey.key, loadKey.args),
                    state |-> "running", rows |-> <<>>] >>)
          \o ItemExecutions(r, batch, entries, i + 1)

\* the batch function of the plural loader: Promise.all over one callback per
\* load key; a callback that throws rejects the batch
DispatchPlural(r) ==
  LET entries == queue[r]
      Applied(i) == applyConnectionArgs(RequestLoaders[r].query,
                                        entries[i].key.args)
      items == [i \in 1..Len(entries) |->
                  IF IsError(Applied(i))
                  THEN [state |-> "rejected", value |-> Applied(i)]
                  ELSE [state |-> "querying", value |-> Null]]
      thrown == {i \in 1..Len(entries) : items[i].state = "rejected"}
  IN /\ executions' = executions
          \o ItemExecutions(r, Len(batches) + 1, entries, 1)
     /\ IF thrown = {}
        THEN /\ batches' = Append(batches,
                  [relationship |-> r, entries |-> entries,
                   state |-> "pending", items |-> items])
             /\ UNCHANGED <<promises, cache>>
        ELSE /\ batches' = Append(batches,
                  [relationship |-> r, entries |-> entries,
                   state |-> "rejected", items |-> items])
             /\ FailedDispatch(r, entries,
                  items[CHOOSE i \in thrown : \A j \in thrown : i <= j].value)

\* the tick ends: the DataLoader of relationship r dispatches its queue
Dispatch(r) ==
  /\ queue[r] # <<>>
  /\ queue' = [queue EXCEPT ![r] = <<>>]
  /\ IF IsSingular(r) THEN DispatchSingular(r) ELSE DispatchPlural(r)
  /\ UNCHANGED calls
  /\ UNCHANGED <<schemaVars, joinVars, tableVars, itemVars>>

\* the statement executor returns the rows of execution e
ExecutorReturns(e, rows) ==
  /\ executions[e].state = "running"
  /\ executions' = [executions EXCEPT ![e].state = "returned",
                                      ![e].rows = rows]
  /\ LET x == executions[e]
         r == x.relationship
         batch == batches[x.batch]
         entries == batch.entries
     IN IF batch.state # "pending"
        THEN UNCHANGED <<promises, batches>>
        ELSE IF IsSingular(r)
        THEN /\ promises' = Settled(entries, "fulfilled",
                  SingularValues(x.params[1], rows,
                                 RequestLoaders[r].keyColumn))
             /\ batches' = [batches EXCEPT ![x.batch].state = "resolved"]
        ELSE LET items == [batch.items EXCEPT ![x.item] =
                             [state |-> "done",
                              value |-> ConnectionFromNodes(rows)]]
             IN IF \A i \in 1..Len(items) : items[i].state = "done"
                THEN /\ promises' = Settled(entries, "fulfilled",
                          [i \in 1..Len(items) |-> items[i].value])
                     /\ batches' = [batches EXCEPT ![x.batch].state = "resolved",
                                                   ![x.batch].items = items]
                ELSE /\ batches' = [batches EXCEPT ![x.batch].items = items]
                     /\ UNCHANGED promises
  /\ UNCHANGED <<calls, cache, queue>>
  /\ UNCHANGED <<schemaVars, joinVars, tableVars, itemVars>>

\* the statement executor fails for execution e
ExecutorFails(e) ==
  /\ executions[e].state = "running"
  /\ executions' = [executions EXCEPT ![e].state = "failed"]
  /\ LET x == executions[e]
         batch == batches[x.batch]
     IN IF batch.state # "pending"
        THEN UNCHANGED <<promises, cache, batches>>
        ELSE /\ FailedDispatch(x.relationship, batch.entries, ExecutorError)
             /\ batches' = [batches EXCEPT ![x.batch].state = "rejected"]
  /\ UNCHANGED <<calls, queue>>
  /\ UNCHANGED <<schemaVars, joinVars, tableVars, itemVars>>

\* a request that resolves the singular field only
SingularNext ==
  \/ \E key \in Keys : Resolve(1, key, NoArgs, MaxCalls)
  \/ Dispatch(1)
  \/ \E e \in 1..Len(executions), rows \in RowResults : ExecutorReturns(e, rows)
  \/ \E e \in 1..Len(executions) : ExecutorFails(e)

SpecSingular == Init /\ [][SingularNext]_vars

\* a request that resolves the plural field only
PluralNext ==
  \/ \E key \in Keys, args \in RequestArguments :
       Resolve(2, key, args, MaxConnectionCalls)
  \/ Dispatch(2)
  \/ \E e \in 1..Len(executions), rows \in RowResults : ExecutorReturns(e, rows)
  \/ \E e \in 1..Len(executions) : ExecutorFails(e)

SpecPlural == Init /\ [][PluralNext]_vars

\* bound on the number of resolver calls of a request that resolves both fields
MaxRequestCalls == 2

\* the connection arguments and the statement results explored for it
MixedArguments == {NoArgs, [NoArgs EXCEPT !.first = Js(2), !.last = Js(2)]}

SomeRowResults == {<<>>, <<"id" :> "B", "id" :> "A">>}

\* a request that resolves the singular and the plural field
RequestNext ==
  \/ \E key \in Keys : Resolve(1, key, NoArgs, MaxRequestCalls)
  \/ \E key \in Keys, args \in MixedArguments :
       Resolve(2, key, args, MaxRequestCalls)
  \/ \E r \in {1, 2} : Dispatch(r)
  \/ \E e \in 1..Len(executions), rows \in SomeRowResults :
       ExecutorReturns(e, rows)
  \/ \E e \in 1..Len(executions) : ExecutorFails(e)

SpecRequest == Init /\ [][RequestNext]_vars

\* ------------------------------------------------------------------------
\* Properties of the segment resolver

Directions == {"in", "out"}

PresentSegments(pair) == {pair[d] : d \in {d \in Directions : ~IsNull(pair[d])}}

\* the same hop declared from the other endpoint
Mirror(segment) ==
  [segment EXCEPT !.direction = IF segment.direction = "in" THEN "out" ELSE "in",
                  !.fromType = segment.toType, !.toType = segment.fromType]

\* the schema in which every declaration of the relationship `signature` is
\* made from the other endpoint
MirroredSchema(rels, signature) ==
  [i \in 1..Len(rels) |->
     [path |-> [j \in 1..Len(rels[i].path) |->
        IF pairingSignatureFromRelationshipSegment(rels[i].path[j]) = signature
        THEN Mirror(rels[i].path[j])
        ELSE rels[i].path[j]]]]

AllPresentPlural(pair) ==
  \A s \in PresentSegments(pair) : s.cardinality = "plural"

\* C2: a pair of one or two segments requires a join table iff every segment
\* present is plural, and its description is of type join exactly then.
JoinTableIffAllPlural ==
  generated =>
    \A i \in 1..Len(segmentDescriptions) :
      LET d == segmentDescriptions[i]
      IN /\ PresentSegments(d.pair) # {}
         /\ segmentPairRequiresJoinTable(d.pair) <=> AllPresentPlural(d.pair)
         /\ d.type = "join" <=> AllPresentPlural(d.pair)
         /\ d.type = "foreignKey" <=> ~AllPresentPlural(d.pair)

\* the four pairs the claim lists, among the resolved descriptions
JoinTableWitness ==
  /\ generated
  /\ Len(segmentDescriptions) = 2
  /\ LET d == segmentDescriptions[1]
         e == segmentDescriptions[2]
     IN /\ IsNull(d.pair.out) /\ d.pair.in.cardinality = "plural"
        /\ d.type = "join"
        /\ IsNull(e.pair.out) /\ e.pair.in.cardinality = "singular"
        /\ e.type = "foreignKey"

\* C5: a foreign key of a pair with exactly one segment is placed on the table
\* of that segment's fromType and references the table of its toType.
SingleSegmentForeignKeyOnFromType ==
  generated =>
    \A i \in 1..Len(segmentDescriptions) :
      LET d == segmentDescriptions[i]
      IN (d.type = "foreignKey" /\ Cardinality(PresentSegments(d.pair)) = 1) =>
           \A s \in PresentSegments(d.pair) :
             /\ d.storage.table = tableNameFromTypeName(s.fromType)
             /\ d.storage.referencedTable = tableNameFromTypeName(s.toType)

\* C6: when both segments are singular and exactly one is non-null, the
\* foreign key is on the table of the non-null segment's fromType and the
\* column is non-null.
NotNullWins ==
  generated =>
    \A i \in 1..Len(segmentDescriptions) :
      LET d == segmentDescriptions[i]
      IN (/\ Cardinality(PresentSegments(d.pair)) = 2
          /\ \A s \in PresentSegments(d.pair) : s.cardinality = "singular"
          /\ d.pair.in.nonNull # d.pair.out.nonNull) =>
           LET n == IF d.pair.in.nonNull THEN d.pair.in ELSE d.pair.out
           IN /\ d.type = "foreignKey"
              /\ d.storage.table = tableNameFromTypeName(n.fromType)
              /\ d.storage.nonNull
              /\ columnFromForeignKeyDescription(d.storage).nonNull

\* the named pair: {in: nullable singular, out: non-null singular}
NotNullWinsWitness ==
  /\ generated
  /\ \E i \in 1..Len(segmentDescriptions) :
       LET d == segmentDescriptions[i]
       IN /\ ~IsNull(d.pair.in) /\ ~IsNull(d.pair.out)
          /\ d.pair.in.cardinality = "singular" /\ ~d.pair.in.nonNull
          /\ d.pair.out.cardinality = "singular" /\ d.pair.out.nonNull
          /\ d.pair.in.fromType # d.pair.in.toType
          /\ d.storage.table = tableNameFromTypeName(d.pair.out.fromType)

\* the segments declared in the paths of the relationships
DeclaredSegments ==
  UNION {{relationships[r].path[h] : h \in 1..Len(relationships[r].path)} :
           r \in 1..Len(relationships)}

\* the segments the descriptions were paired from
PairedSegments ==
  UNION {PresentSegments(segmentDescriptions[i].pair) :
           i \in 1..Len(segmentDescriptions)}

\* C16: flattenedUniqueSegmentsFromRelationships returns one declared segment
\* for every identity signature that occurs in the paths and no other segment,
\* none twice, and the segment kept for a signature is non-null exactly when a
\* declared segment of that signature is non-null; these are the segments the
\* descriptions are built from
SegmentDeduplication ==
  generated =>
    LET kept == flattenedUniqueSegmentsFromRelationships(relationships)
        Signature(segment) == identitySignatureFromRelationshipSegment(segment)
    IN /\ \A s \in DeclaredSegments :
            Cardinality({i \in 1..Len(kept) :
                           Signature(kept[i]) = Signature(s)}) = 1
       /\ \A i \in 1..Len(kept) :
            /\ kept[i] \in DeclaredSegments
            /\ kept[i].nonNull <=>
                 \E s \in DeclaredSegments :
                   Signature(s) = Signature(kept[i]) /\ s.nonNull
       /\ PairedSegments = {kept[i] : i \in 1..Len(kept)}

\* a non-null segment was declared first and a nullable segment of the same
\* signature after it: the non-null one was kept
SegmentDeduplicationWitness ==
  /\ generated
  /\ Len(relationships) = 2
  /\ LET first == relationships[1].path[1]
         second == relationships[2].path[1]
     IN /\ identitySignatureFromRelationshipSegment(first)
             = identitySignatureFromRelationshipSegment(second)
        /\ first.nonNull
        /\ ~second.nonNull
        /\ first.cardinality # second.cardinality
        /\ PairedSegments = {first}

BothDeclared(d) == ~IsNull(d.pair.in) /\ ~IsNull(d.pair.out)

\* the storage of description d is that of a foreign key owned by `owner`
OwnedBy(d, owner) ==
  /\ d.storage.direction = owner.direction
  /\ d.storage.referencedTable = tableNameFromTypeName(owner.fromType)
  /\ d.storage.table = tableNameFromTypeName(owner.toType)

\* the `in` segment is plural, or the `out` segment is non-null while the `in`
\* segment is nullable
InPluralOrOutNonNull(pair) ==
  \/ pair.in.cardinality = "plural"
  \/ (pair.out.nonNull /\ ~pair.in.nonNull)

SingularOfPair(pair) ==
  IF pair.in.cardinality = "singular" THEN pair.in ELSE pair.out

\* C14: when both directions are declared, one singular and one plural,
\* whatever their nonNull flags, the foreign key column is added to the table
\* of the singular segment's fromType
SingularPluralForeignKeyOnSingularFromType ==
  generated =>
    \A i \in 1..Len(segmentDescriptions) :
      LET d == segmentDescriptions[i]
      IN (BothDeclared(d) /\ d.pair.in.cardinality # d.pair.out.cardinality) =>
           /\ d.type = "foreignKey"
           /\ d.storage.table =
                tableNameFromTypeName(SingularOfPair(d.pair).fromType)
           /\ \E t \in 1..Len(tables) :
                /\ tables[t].name =
                     tableNameFromTypeName(SingularOfPair(d.pair).fromType)
                /\ \E c \in 1..Len(tables[t].columns) :
                     tables[t].columns[c].name = d.storage.column

\* ------------------------------------------------------------------------
\* Properties of the path compiler and the renderer

Count(pieces, piece) == Cardinality({i \in 1..Len(pieces) : pieces[i] = piece})

\* a path of two `out` hops whose second hop is stored in a join table
TwoHopThroughJoinTable(path) ==
  /\ Len(path) = 2
  /\ path[1].direction = "out"
  /\ path[2].direction = "out"
  /\ descriptionFromSegment(segmentDescriptions, path[2]).type = "join"

\* C9: the statement compiled and rendered for a two-hop path of `out` hops
\* whose second hop is stored in a join table selects from the table of the
\* final type, has exactly two JOIN clauses and exactly one WHERE condition,
\* <table>.<column> = ANY ($1), which is the condition of the first hop.
TwoHopRoundTrip ==
  \A i \in 1..Len(loaders) :
    LET path == relationships[i].path
        query == loaders[i].query
        pieces == loaders[i].pieces
        where == CHOOSE k \in 1..Len(pieces) : pieces[k] = "WHERE"
    IN TwoHopThroughJoinTable(path) =>
         /\ query.table = tableNameFromTypeName(path[2].toType)
         /\ SubSeq(pieces, 1, 4)
              = << "SELECT", SnakeText(query.table) \o ".*", "FROM",
                   SnakeText(query.table) >>
         /\ Len(query.joins) = 2
         /\ Count(pieces, "JOIN") = 2
         /\ Count(pieces, "WHERE") = 1
         /\ Count(pieces, "AND") = 0
         /\ Len(query.conditions) = 1
         /\ query.conditions[1]
              = conditionFromSegment(segmentDescriptions, path[1])
         /\ SubSeq(pieces, where + 1, Len(pieces))
              = << Qualified(query.conditions[1].table,
                             query.conditions[1].column), "=", "ANY ($1)" >>
         /\ loaders[i].sql = JoinStrings(pieces, " ") \o ";"

\* author -out-> post -out-> tag with the second hop in a join table and the
\* first hop in a join table too, so that compaction has merged two joins
TwoHopWitness ==
  /\ Len(loaders) = 1
  /\ TwoHopThroughJoinTable(relationships[1].path)
  /\ relationships[1].path[1].fromType = <<"author">>
  /\ relationships[1].path[2].fromType = <<"post">>
  /\ relationships[1].path[2].toType = <<"tag">>
  /\ descriptionFromSegment(segmentDescriptions,
                            relationships[1].path[1]).type = "join"
  /\ Len(joinsFromPath(segmentDescriptions, relationships[1].path)) = 3
  /\ Len(loaders[1].query.joins) = 2

\* ------------------------------------------------------------------------
\* Properties of join compaction and of the table compiler

\* C8: compacting an already compacted join list yields the same list.
CompactionIdempotent ==
  Len(compactions) = 2 => compactions[2] = compactions[1]

DatabaseFieldsNamed(def, name) ==
  {i \in 1..Len(def.fields) :
     isDatabaseField(def.fields[i]) /\ def.fields[i].name.value = name}

ColumnsNamed(t, name) == {i \in 1..Len(t.columns) : t.columns[i].name = name}

\* C10: building the table of a definition that declares a database field
\* named seq fails, and every table built has exactly one column named seq.
SeqIsReserved ==
  table # Null =>
    /\ DatabaseFieldsNamed(definition, <<"seq">>) # {} => IsError(table)
    /\ ~IsError(table) => Cardinality(ColumnsNamed(table, <<"seq">>)) = 1

\* ------------------------------------------------------------------------
\* Properties of the loaders

Given(argument) == ~IsNull(argument)

ForwardGiven(args) == Given(args.first) \/ Given(args.after)

BackwardGiven(args) == Given(args.last) \/ Given(args.before)

\* C7: once applyConnectionArgs has run for a load key, the callback is
\* rejected with the usage error exactly when the arguments hold a forward
\* argument (first, after) together with a backward one (last, before); a
\* rejected callback has rendered no SQL text and never calls the executor,
\* and arguments of one group or of none are rendered and executed
PaginationExclusivity ==
  /\ item.pc \in {"rejected", "applied", "rendered", "executing"} =>
       /\ item.pc = "rejected" <=>
            ForwardGiven(item.args) /\ BackwardGiven(item.args)
       /\ item.pc = "rejected" =>
            /\ item.result = PaginationError
            /\ item.sql = ""
            /\ item.params = <<>>
  /\ item.pc \in {"rendered", "executing"} =>
       /\ ~(ForwardGiven(item.args) /\ BackwardGiven(item.args))
       /\ item.sql # ""

\* a forward argument of one kind with a backward argument of another kind
\* has been rejected
PaginationRejectedWitness ==
  /\ item.pc = "rejected"
  /\ Given(item.args.after)
  /\ Given(item.args.last)
  /\ IsNull(item.args.first)
  /\ IsNull(item.args.before)

\* the query the rewrite rule gives for a base query and admissible arguments
Rewritten(base, args) ==
  LET column == IF Given(args.order) THEN args.order.value ELSE <<"seq">>
      Extra(operator) ==
        [table |-> base.table, column |-> column, operator |-> operator,
         value |-> "(SELECT " \o SnakeText(column) \o " FROM "
                   \o SnakeText(base.table) \o " WHERE id = $2)"]
  IN [table |-> base.table,
      joins |-> base.joins,
      order |-> [column |-> column,
                 direction |-> IF Given(args.last) \/ Given(args.before)
                               THEN "DESC" ELSE "ASC"],
      limit |-> IF Given(args.first) THEN args.first
                ELSE IF Given(args.last) THEN args.last ELSE Null,
      conditions |->
        base.conditions
          \o (IF Given(args.after) THEN <<Extra(">")>>
              ELSE IF Given(args.before) THEN <<Extra("<")>> ELSE <<>>)]

\* C15: for every base query and every admissible set of arguments the query
\* applyConnectionArgs returns has the table and the joins of the base query,
\* orders by `seq` or by the order field given, DESC exactly when last or
\* before is given, has the limit first, else last, else none, and has the
\* base conditions followed by one condition on the order column, `>` for
\* after and `<` for before, or by none; the base query stays as it was
PaginationRewrite ==
  /\ [](item.pc \in {"applied", "rendered", "executing"} =>
          item.result = Rewritten(item.base, item.args))
  /\ [][item'.base = item.base]_vars

\* a base query with joins was rewritten for {before, order}: the result is
\* ordered by that field, DESC, without limit, and has a second condition, `<`
PaginationRewriteWitness ==
  /\ item.pc = "applied"
  /\ item.base.joins # <<>>
  /\ Given(item.args.before) /\ Given(item.args.order)
  /\ IsNull(item.args.last) /\ IsNull(item.args.first)
  /\ item.result.order = [column |-> <<"created", "at">>, direction |-> "DESC"]
  /\ Len(item.result.conditions) = 2
  /\ item.result.conditions[2].operator = "<"
  /\ IsNull(item.result.limit)
  /\ item.result.joins = item.base.joins

SingularCalls == {c \in 1..Len(calls) : IsSingular(calls[c].relationship)}

\* the calls of the singular loader whose load(key) created a promise in the
\* tick of the call
FreshCalls == {c \in SingularCalls : promises[calls[c].promise].tick = calls[c].tick}

ExecutionsOf(b) == {e \in 1..Len(executions) : executions[e].batch = b}

NoDuplicates(seq) ==
  \A i, j \in 1..Len(seq) : seq[i] = seq[j] => i = j

\* the rows of `rows` whose resolved key column, id, equals key
RowsWithKey(rows, key) ==
  {i \in 1..Len(rows) : "id" \in DOMAIN rows[i] /\ rows[i]["id"] = key}

\* C3: load(key) calls of one singular relationship made in one tick: calls
\* with the same key share one promise, so they receive the identical value;
\* the keys they queue are dispatched in one batch, for which the executor is
\* invoked exactly once with the queued keys, each once, as the only
\* parameter; and when the statement returns, every call receives a row whose
\* key column equals its own key, or nothing when no row matches
SingularBatching ==
  /\ \A c, d \in SingularCalls :
       (calls[c].tick = calls[d].tick /\ calls[c].key = calls[d].key) =>
         calls[c].promise = calls[d].promise
  /\ \A c, d \in FreshCalls :
       calls[c].tick = calls[d].tick =>
         BatchOf(calls[c].promise) = BatchOf(calls[d].promise)
  /\ \A c \in SingularCalls :
       LET b == BatchOf(calls[c].promise)
       IN b # 0 =>
            /\ Cardinality(ExecutionsOf(b)) = 1
            /\ \A e \in ExecutionsOf(b) :
                 /\ Len(executions[e].params) = 1
                 /\ NoDuplicates(executions[e].params[1])
                 /\ \E i \in 1..Len(executions[e].params[1]) :
                      executions[e].params[1][i] = calls[c].key
                 /\ \A i \in 1..Len(executions[e].params[1]) :
                      \E x \in SingularCalls :
                        /\ calls[x].key = executions[e].params[1][i]
                        /\ BatchOf(calls[x].promise) = b
                 /\ executions[e].sql = RequestLoaders[1].sql
                 /\ promises[calls[c].promise].state = "fulfilled" =>
                      LET rows == executions[e].rows
                          value == promises[calls[c].promise].value
                      IN IF RowsWithKey(rows, calls[c].key) = {}
                         THEN IsNull(value)
                         ELSE \E i \in RowsWithKey(rows, calls[c].key) :
                                value = rows[i]

\* keys A, B, A were loaded in one tick; one statement ran for them, out of
\* order, and the calls received row A, row B, row A
SingularBatchingWitness ==
  /\ Len(calls) = 3
  /\ \A c \in 1..3 : calls[c].relationship = 1 /\ calls[c].tick = 0
  /\ calls[1].key = "A" /\ calls[2].key = "B" /\ calls[3].key = "A"
  /\ Len(executions) = 1
  /\ executions[1].state = "returned"
  /\ executions[1].params = << <<"A", "B">> >>
  /\ executions[1].rows = <<"id" :> "B", "id" :> "A">>
  /\ \A c \in 1..3 :
       /\ promises[calls[c].promise].state = "fulfilled"
       /\ promises[calls[c].promise].value = ("id" :> calls[c].key)

\* the load key of execution e of the plural loader
LoadKeyOf(e) == batches[executions[e].batch].entries[executions[e].item].key

\* C4: the plural loader never executes two statements for one key and one
\* set of connection arguments
PluralExecutedOncePerKeyAndArgs ==
  \A e, f \in 1..Len(executions) :
    (/\ ~IsSingular(executions[e].relationship)
     /\ ~IsSingular(executions[f].relationship)
     /\ LoadKeyOf(e).key = LoadKeyOf(f).key
     /\ LoadKeyOf(e).args = LoadKeyOf(f).args) => e = f

\* a path every hop of which leads to one object
SingularPath(path) == \A h \in 1..Len(path) : path[h].cardinality = "singular"

\* the base condition of the loader is on a column of the table the rows are
\* selected from, and the key column of the loader is the name of that column
\* in the rows
KeyColumnCoherent(loader) ==
  /\ Len(loader.query.conditions) = 1
  /\ loader.query.conditions[1].table = loader.query.table
  /\ loader.keyColumn = camel(loader.query.conditions[1].column)

\* C17: for every singular relationship, of any path length, the condition
\* built from the first hop constrains a column of the table of the terminal
\* type, from which the rows are selected, and
\* resolvedKeyColumnFromRelationship names that column
SingularKeyColumnCoherence ==
  \A r \in 1..Len(loaders) :
    SingularPath(relationships[r].path) => KeyColumnCoherent(loaders[r])

\* ------------------------------------------------------------------------
\* Properties of the generated tables

DuplicateColumn(t) ==
  \E i, j \in 1..Len(t.columns) : i # j /\ t.columns[i].name = t.columns[j].name

\* two descriptions with different signatures whose foreign keys are the same
\* column of the same table
ForeignKeyClash ==
  \E i, j \in 1..Len(segmentDescriptions) :
    /\ i # j
    /\ segmentDescriptions[i].type = "foreignKey"
    /\ segmentDescriptions[j].type = "foreignKey"
    /\ segmentDescriptions[i].storage.table = segmentDescriptions[j].storage.table
    /\ segmentDescriptions[i].storage.column = segmentDescriptions[j].storage.column

\* C11: generateDatabaseInterface never produces tables for a schema in which
\* two segment descriptions compute the same foreign key column of the same
\* table, and no table it produces has two columns of one name
NoForeignKeyColumnClash ==
  generated =>
    /\ ~ForeignKeyClash
    /\ \A t \in 1..Len(tables) : ~DuplicateColumn(tables[t])

\* ------------------------------------------------------------------------
\* Properties of a request that uses several loaders

Failed(b) == \E e \in ExecutionsOf(b) : executions[e].state = "failed"

\* a callback of the batch threw the usage error of applyConnectionArgs
ArgumentsRejected(b) ==
  \E i \in 1..Len(batches[b].items) : batches[b].items[i].state = "rejected"

PromisesOf(b) ==
  {batches[b].entries[i].promise : i \in 1..Len(batches[b].entries)}

\* what the loads of a batch whose statements have all returned receive
OwnResults(b) ==
  \A i \in 1..Len(batches[b].entries) :
    LET entry == batches[b].entries[i]
        promise == promises[entry.promise]
    IN /\ promise.state = "fulfilled"
       /\ IF IsSingular(batches[b].relationship)
          THEN \E e \in ExecutionsOf(b) :
                 IF RowsWithKey(executions[e].rows, entry.key) = {}
                 THEN IsNull(promise.value)
                 ELSE \E x \in RowsWithKey(executions[e].rows, entry.key) :
                        promise.value = executions[e].rows[x]
          ELSE \E e \in ExecutionsOf(b) :
                 /\ executions[e].item = i
                 /\ promise.value = ConnectionFromNodes(executions[e].rows)

\* what holds of every batch whatever the error its loads are rejected with
IsolationOfBatch(b) ==
  /\ Failed(b) => \A p \in PromisesOf(b) : promises[p].state = "rejected"
  /\ \A p \in PromisesOf(b) :
       (promises[p].state = "rejected" /\ promises[p].value = ExecutorError)
         => Failed(b)
  /\ Cardinality(ExecutionsOf(b)) <=
       (IF IsSingular(batches[b].relationship) THEN 1
        ELSE Len(batches[b].entries))
  /\ \A e \in ExecutionsOf(b) :
       executions[e].relationship = batches[b].relationship
  /\ (/\ ~Failed(b)
      /\ ~ArgumentsRejected(b)
      /\ ExecutionsOf(b) # {}
      /\ \A e \in ExecutionsOf(b) : executions[e].state = "returned")
       => OwnResults(b)

\* C12 as stated: when a statement of a batch fails, the loads of that batch,
\* and no others, are rejected with the executor's error, no statement is
\* executed again, and the loads of every other batch receive their own
\* results
ExecutorFailureIsolation ==
  \A b \in 1..Len(batches) :
    /\ IsolationOfBatch(b)
    /\ Failed(b) => \A p \in PromisesOf(b) : promises[p].value = ExecutorError

\* C12, amended: as above, but the loads of a batch of the plural loader one
\* of whose load keys combined forward and backward arguments were rejected
\* with that usage error when the batch was dispatched, and keep it when a
\* statement of the batch fails later
ExecutorFailureIsolationAfterUsageError ==
  \A b \in 1..Len(batches) :
    /\ IsolationOfBatch(b)
    /\ Failed(b) =>
         \A p \in PromisesOf(b) :
           promises[p].value =
             IF ArgumentsRejected(b) THEN PaginationError ELSE ExecutorError

\* the statement of the singular loader failed and its load was rejected with
\* the executor's error; the statement of the plural loader returned two rows
\* and its load received its own connection
ExecutorFailureIsolationWitness ==
  /\ Len(batches) = 2
  /\ Len(executions) = 2
  /\ \E b, c \in 1..2 :
       /\ batches[b].relationship = 1
       /\ batches[c].relationship = 2
       /\ Failed(b)
       /\ \A p \in PromisesOf(b) :
            promises[p].state = "rejected" /\ promises[p].value = ExecutorError
       /\ ~Failed(c)
       /\ \E e \in ExecutionsOf(c) :
            executions[e].rows = <<"id" :> "B", "id" :> "A">>
       /\ \A p \in PromisesOf(c) :
            /\ promises[p].state = "fulfilled"
            /\ promises[p].value.count = 2

====
